---- MODULE Spec2Model ----
(***************************************************************************)
(* Lead Generator API: the in-memory job store of api.py, the background   *)
(* execution of a job, and the retry loop of                               *)
(* GeminiClient.generate_companies.                                        *)
(*                                                                         *)
(* Strings whose content the code inspects (industry, country, exception   *)
(* messages) are sequences of one-character strings, so that slicing,      *)
(* strip(), lower() and the substring test are computed as Python does.    *)
(* An optional value (a dict key that may be missing, a local that may be  *)
(* unset) is a sequence of length at most one.                             *)
(***************************************************************************)
EXTENDS Integers, Sequences, FiniteSets, TLC

VARIABLES
    apiKey,       \* whether GEMINI_API_KEY is set in the environment
    now,          \* the reading datetime.utcnow() returns, in clock ticks
    job_storage,  \* api.py: job_storage, job id -> job record
    tasks,        \* the calls of generate_leads_background / generate_companies
                  \* that are scheduled or running, oldest first
    submitted,    \* the number of jobs accepted so far
    resp          \* the request handled last and the response it was given

vars == <<apiKey, now, job_storage, tasks, submitted, resp>>

----------------------------------------------------------------------------
(* Bounds of the model.                                                    *)

MaxSubmits == 2
MaxTime == 1
MaxRetriesBound == 6

(* Program constants.                                                      *)

DefaultMaxRetries == 5
DefaultInitialDelay == 2
DelayCap == 60
IdPrefixLen == 10
MinLength == 2
MaxLength == 100
MinNumber == 1
MaxNumber == 50

----------------------------------------------------------------------------
(* Optional values.                                                        *)

Absent == <<>>
Some(x) == <<x>>
Present(o) == o # <<>>
Get(o) == o[1]

Min(a, b) == IF a <= b THEN a ELSE b

RECURSIVE Pow2(_)
Pow2(n) == IF n = 0 THEN 1 ELSE 2 * Pow2(n - 1)

----------------------------------------------------------------------------
(* Strings as character sequences.                                         *)

IND_technology ==
    <<"t", "e", "c", "h", "n", "o", "l", "o", "g", "y">>
IND_technology_services ==
    <<"t", "e", "c", "h", "n", "o", "l", "o", "g", "y", " ", "s", "e", "r", "v", "i", "c", "e", "s">>
IND_finance ==
    <<"f", "i", "n", "a", "n", "c", "e">>
IND_blank ==
    <<" ", " ">>
CTY_USA ==
    <<"U", "S", "A">>
CTY_UK ==
    <<"U", "K">>
CTY_empty ==
    <<>>
PAT_503 ==
    <<"5", "0", "3">>
PAT_overloaded ==
    <<"o", "v", "e", "r", "l", "o", "a", "d", "e", "d">>
PAT_unavailable ==
    <<"u", "n", "a", "v", "a", "i", "l", "a", "b", "l", "e">>
PAT_service_unavailable ==
    <<"s", "e", "r", "v", "i", "c", "e", " ", "u", "n", "a", "v", "a", "i", "l", "a", "b", "l", "e">>
PAT_model_is_overloaded ==
    <<"m", "o", "d", "e", "l", " ", "i", "s", " ", "o", "v", "e", "r", "l", "o", "a", "d", "e", "d">>
PAT_rate_limit ==
    <<"r", "a", "t", "e", " ", "l", "i", "m", "i", "t">>
PAT_too_many_requests ==
    <<"t", "o", "o", " ", "m", "a", "n", "y", " ", "r", "e", "q", "u", "e", "s", "t", "s">>
PAT_connection ==
    <<"c", "o", "n", "n", "e", "c", "t", "i", "o", "n">>
PAT_timeout ==
    <<"t", "i", "m", "e", "o", "u", "t">>
PAT_network ==
    <<"n", "e", "t", "w", "o", "r", "k">>
MSG_invalid_key ==
    <<"I", "n", "v", "a", "l", "i", "d", " ", "A", "P", "I", " ", "k", "e", "y">>
MSG_bad_request ==
    <<"B", "a", "d", " ", "r", "e", "q", "u", "e", "s", "t">>
MSG_upstream ==
    <<"u", "p", "s", "t", "r", "e", "a", "m", " ", "e", "r", "r", "o", "r">>
MSG_slow_down ==
    <<"s", "l", "o", "w", " ", "d", "o", "w", "n">>
MSG_quota ==
    <<"q", "u", "o", "t", "a", " ", "e", "x", "c", "e", "e", "d", "e", "d">>
MSG_timed_out ==
    <<"R", "e", "q", "u", "e", "s", "t", " ", "t", "i", "m", "e", "d", " ", "o", "u", "t", ".">>
MSG_overloaded ==
    <<"T", "h", "e", " ", "m", "o", "d", "e", "l", " ", "i", "s", " ", "O", "V", "E", "R", "L", "O", "A", "D", "E", "D">>
MSG_unavailable ==
    <<"S", "e", "r", "v", "i", "c", "e", " ", "U", "n", "a", "v", "a", "i", "l", "a", "b", "l", "e">>
MSG_rate_limit ==
    <<"R", "a", "t", "e", " ", "l", "i", "m", "i", "t", " ", "e", "x", "c", "e", "e", "d", "e", "d">>
MSG_too_many ==
    <<"T", "o", "o", " ", "M", "a", "n", "y", " ", "R", "e", "q", "u", "e", "s", "t", "s">>
MSG_conn_reset ==
    <<"C", "o", "n", "n", "e", "c", "t", "i", "o", "n", " ", "r", "e", "s", "e", "t">>
MSG_read_timeout ==
    <<"r", "e", "a", "d", " ", "t", "i", "m", "e", "o", "u", "t">>
MSG_network ==
    <<"N", "e", "t", "w", "o", "r", "k", " ", "d", "o", "w", "n">>
MSG_err503 ==
    <<"E", "r", "r", "o", "r", " ", "5", "0", "3">>
MSG_pool ==
    <<"C", "o", "n", "n", "e", "c", "t", "i", "o", "n", " ", "p", "o", "o", "l", " ", "o", "v", "e", "r", "l", "o", "a", "d", "e", "d">>

(* str.lower() on the letters the modelled messages use.                   *)
LowerChar(c) ==
    CASE c = "A" -> "a" [] c = "B" -> "b" [] c = "C" -> "c" [] c = "D" -> "d"
      [] c = "E" -> "e" [] c = "F" -> "f" [] c = "G" -> "g" [] c = "H" -> "h"
      [] c = "I" -> "i" [] c = "J" -> "j" [] c = "K" -> "k" [] c = "L" -> "l"
      [] c = "M" -> "m" [] c = "N" -> "n" [] c = "O" -> "o" [] c = "P" -> "p"
      [] c = "Q" -> "q" [] c = "R" -> "r" [] c = "S" -> "s" [] c = "T" -> "t"
      [] c = "U" -> "u" [] c = "V" -> "v" [] c = "W" -> "w" [] c = "X" -> "x"
      [] c = "Y" -> "y" [] c = "Z" -> "z" [] OTHER -> c

Lower(s) == [i \in 1..Len(s) |-> LowerChar(s[i])]

(* Python's `p in s` on strings.                                           *)
Contains(s, p) ==
    \E i \in 1..(Len(s) - Len(p) + 1) : SubSeq(s, i, i + Len(p) - 1) = p

(* Python's s[:n].                                                         *)
Prefix(s, n) == SubSeq(s, 1, Min(Len(s), n))

(* Python's s.strip() for the blank character.                             *)
RECURSIVE LStrip(_)
LStrip(s) == IF s # <<>> /\ Head(s) = " " THEN LStrip(Tail(s)) ELSE s

RECURSIVE RStrip(_)
RStrip(s) ==
    IF s # <<>> /\ s[Len(s)] = " " THEN RStrip(SubSeq(s, 1, Len(s) - 1)) ELSE s

Strip(s) == RStrip(LStrip(s))

----------------------------------------------------------------------------
(* The exceptions client.chat.completions.create may raise.  An attribute  *)
(* is "NoAttr" when the exception has no such attribute, "None" when it    *)
(* has it with the value None, and otherwise the number as a string.       *)
(* type is the class the isinstance tests look at; msg is str(e).          *)

Exc(ty, sc, rsc, cd, m) ==
    [type |-> ty, status_code |-> sc, response_status_code |-> rsc,
     code |-> cd, msg |-> m]

E_invalid_key == Exc("Exception", "NoAttr", "NoAttr", "NoAttr", MSG_invalid_key)
E_bad_request == Exc("APIStatusError", "400", "400", "None", MSG_bad_request)
E_code_503 == Exc("APIStatusError", "503", "503", "None", MSG_upstream)
E_response_429 == Exc("Exception", "NoAttr", "429", "NoAttr", MSG_slow_down)
E_code_attr_503 == Exc("Exception", "NoAttr", "NoAttr", "503", MSG_upstream)
E_shadowed_503 == Exc("Exception", "None", "NoAttr", "503", MSG_upstream)
E_rate_type == Exc("RateLimitError", "NoAttr", "NoAttr", "NoAttr", MSG_quota)
E_conn_type == Exc("APIConnectionError", "NoAttr", "NoAttr", "None", MSG_timed_out)
E_overloaded == Exc("Exception", "NoAttr", "NoAttr", "NoAttr", MSG_overloaded)
E_unavailable == Exc("Exception", "NoAttr", "NoAttr", "NoAttr", MSG_unavailable)
E_rate_limit == Exc("Exception", "NoAttr", "NoAttr", "NoAttr", MSG_rate_limit)
E_too_many == Exc("Exception", "NoAttr", "NoAttr", "NoAttr", MSG_too_many)
E_conn_reset == Exc("Exception", "NoAttr", "NoAttr", "NoAttr", MSG_conn_reset)
E_read_timeout == Exc("Exception", "NoAttr", "NoAttr", "NoAttr", MSG_read_timeout)
E_network == Exc("Exception", "NoAttr", "NoAttr", "NoAttr", MSG_network)
E_msg_503 == Exc("Exception", "NoAttr", "NoAttr", "NoAttr", MSG_err503)
E_pool == Exc("Exception", "NoAttr", "NoAttr", "NoAttr", MSG_pool)
E_plain_timed_out ==
    Exc("Exception", "NoAttr", "NoAttr", "NoAttr", MSG_timed_out)

Errors ==
    {E_invalid_key, E_bad_request, E_code_503, E_response_429,
     E_code_attr_503, E_shadowed_503, E_rate_type, E_conn_type,
     E_overloaded, E_unavailable, E_rate_limit, E_too_many, E_conn_reset,
     E_read_timeout, E_network, E_msg_503, E_pool, E_plain_timed_out}

(* The exceptions drawn for the calls a background job makes.              *)
JobErrors == {E_invalid_key, E_code_503}

----------------------------------------------------------------------------
(* generate_companies, the except block: classification of the exception. *)

error_code(e) ==
    IF e.status_code # "NoAttr" THEN e.status_code
    ELSE IF e.response_status_code # "NoAttr" THEN e.response_status_code
    ELSE IF e.code # "NoAttr" THEN e.code
    ELSE "None"

(* An overload test that takes every status code for a 503.                *)
is_503_error_any_code(e) ==
    \/ error_code(e) # "None"
    \/ Contains(e.msg, PAT_503)
    \/ Contains(Lower(e.msg), PAT_overloaded)
    \/ Contains(Lower(e.msg), PAT_unavailable)
    \/ Contains(Lower(e.msg), PAT_service_unavailable)
    \/ Contains(Lower(e.msg), PAT_model_is_overloaded)

is_503_error(e) ==
    \/ error_code(e) = "503"
    \/ Contains(e.msg, PAT_503)
    \/ Contains(Lower(e.msg), PAT_overloaded)
    \/ Contains(Lower(e.msg), PAT_unavailable)
    \/ Contains(Lower(e.msg), PAT_service_unavailable)
    \/ Contains(Lower(e.msg), PAT_model_is_overloaded)

is_rate_limit(e) ==
    \/ error_code(e) = "429"
    \/ e.type = "RateLimitError"
    \/ Contains(Lower(e.msg), PAT_rate_limit)
    \/ Contains(Lower(e.msg), PAT_too_many_requests)

(* A connection test that gives way to the overload test.                  *)
is_connection_error_unless_overload(e) ==
    /\ ~is_503_error(e)
    /\ \/ e.type = "APIConnectionError"
       \/ Contains(Lower(e.msg), PAT_connection)
       \/ Contains(Lower(e.msg), PAT_timeout)
       \/ Contains(Lower(e.msg), PAT_network)

is_connection_error(e) ==
    \/ e.type = "APIConnectionError"
    \/ Contains(Lower(e.msg), PAT_connection)
    \/ Contains(Lower(e.msg), PAT_timeout)
    \/ Contains(Lower(e.msg), PAT_network)

(* A loop that retries every error.                                        *)
ShouldRetry_always(e) == TRUE

(* Line 151: the error is retried when one of the three flags is set.      *)
ShouldRetry(e) == is_503_error(e) \/ is_rate_limit(e) \/ is_connection_error(e)

(* A last-attempt test that is off by one.                                 *)
LastAttempt_off_by_one(attempt, max_retries) == attempt = max_retries

(* Line 157: the failed attempt (0-based) was the last one.                *)
LastAttempt(attempt, max_retries) == attempt = max_retries - 1

(* A delay that is not capped.                                             *)
BackoffDelay_uncapped(initial_delay, attempt) == initial_delay * Pow2(attempt)

(* Lines 164-166: the delay slept after the failure of attempt (0-based).  *)
BackoffDelay(initial_delay, attempt) ==
    Min(initial_delay * Pow2(attempt), DelayCap)

(* A raise that prints the code as it is, None included.                   *)
RaisedError_raw_code(e) == [error_code |-> error_code(e), msg |-> e.msg]

(* Lines 154 and 160: the exception raised, "Error code: <code> - <msg>".  *)
(* `error_code or 'UNKNOWN'`: None and 0 are falsy.                        *)
RaisedError(e) ==
    [error_code |-> IF error_code(e) \in {"None", "0"} THEN "UNKNOWN"
                    ELSE error_code(e),
     msg |-> e.msg]

----------------------------------------------------------------------------
(* The model's text answers, as token sequences: a Markdown fence opening  *)
(* a json block, a bare fence, and content tokens.  JsonTokens are the     *)
(* content tokens json.loads accepts.  "<fence>" stands for the three     *)
(* backquotes.                                                             *)

JsonTokens == {"{companies}", "null"}

RT_plain == <<"{companies}">>
RT_fenced_json == <<"Here:", "<fence>json", "{companies}", "<fence>">>
RT_fenced == <<"<fence>", "{companies}", "<fence>", "Done">>
RT_garbage == <<"Sorry,", "no">>

ResponseTexts == {RT_plain, RT_fenced_json, RT_fenced, RT_garbage}

(* The answers drawn for the calls a background job makes.                 *)
JobResponseTexts == {RT_plain, RT_garbage}

IsFence(tok) == tok \in {"<fence>json", "<fence>"}

(* text.split(sep)[1].split("<fence>")[0]: the tokens after the first sep up   *)
(* to the next fence.                                                      *)
RECURSIVE UpToFence(_)
UpToFence(toks) ==
    IF toks = <<>> \/ IsFence(Head(toks)) THEN <<>>
    ELSE <<Head(toks)>> \o UpToFence(Tail(toks))

RECURSIVE AfterFirst(_, _)
AfterFirst(toks, seps) ==
    IF toks = <<>> THEN <<>>
    ELSE IF Head(toks) \in seps THEN Tail(toks)
    ELSE AfterFirst(Tail(toks), seps)

HasToken(toks, set) == \E i \in 1..Len(toks) : toks[i] \in set

(* Lines 182-185: the clean-up of Markdown code blocks.                    *)
CleanResponse(toks) ==
    IF HasToken(toks, {"<fence>json"}) THEN UpToFence(AfterFirst(toks, {"<fence>json"}))
    ELSE IF HasToken(toks, {"<fence>"}) THEN UpToFence(AfterFirst(toks, {"<fence>"}))
    ELSE toks

(* Lines 188-194: json.loads, or the error dictionary that is returned.    *)
ParseResponse(toks) ==
    LET text == CleanResponse(toks) IN
    IF Len(text) = 1 /\ text[1] \in JsonTokens
    THEN [kind |-> "json", value |-> text[1]]
    ELSE [kind |-> "error_dict", raw_response |-> text]

----------------------------------------------------------------------------
(* Requests.  LeadRequest validates a request before the handler runs.     *)

Req(ind, n, c, ws) ==
    [industry |-> ind, number |-> n, country |-> c, enable_web_scraping |-> ws]

Requests ==
    {Req(IND_technology, 1, CTY_USA, FALSE),
     Req(IND_technology_services, 50, CTY_UK, TRUE),
     Req(IND_technology, 0, CTY_USA, FALSE),
     Req(IND_finance, 51, CTY_UK, FALSE),
     Req(IND_blank, 5, CTY_USA, FALSE),
     Req(IND_finance, 5, CTY_empty, TRUE)}

(* Field(min_length=2, max_length=100) and validate_non_empty.             *)
ValidText(s) ==
    /\ Len(s) >= MinLength
    /\ Len(s) <= MaxLength
    /\ Strip(s) # <<>>

(* A number check without the upper limit.                                 *)
ValidNumber_no_upper(n) == n >= MinNumber

(* Field(ge=1, le=50) and validate_number.                                 *)
ValidNumber(n) == n >= MinNumber /\ n <= MaxNumber

ValidRequest(r) ==
    ValidText(r.industry) /\ ValidNumber(r.number) /\ ValidText(r.country)

(* The request the handler sees: validate_non_empty returns v.strip().     *)
Normalised(r) ==
    [r EXCEPT !.industry = Strip(r.industry), !.country = Strip(r.country)]

(* What the handlers are given: the requests that pass validation, as the *)
(* handler sees them, and None for those rejected with status 422.         *)
Admitted ==
    [raw \in Requests |->
        IF ValidRequest(raw) THEN Some(Normalised(raw)) ELSE Absent]

(* Line 269: job_<timestamp>_<industry[:10]>.                              *)
JobId(t, industry) == <<t, Prefix(industry, IdPrefixLen)>>

NoJob == <<>>

----------------------------------------------------------------------------
(* A call in progress: the locals of generate_leads_background,            *)
(* generate_leads_sync and generate_companies, and what the call has done  *)
(* to its surroundings (calls made, sleeps slept, events logged, and the   *)
(* log events and sleeps in the order they happened).                      *)

Locals ==
    [max_retries |-> 0, initial_delay |-> 0, attempt |-> 0, calls |-> 0,
     sleeps |-> <<>>, log |-> <<>>, effects |-> <<>>,
     last_exception |-> Absent,
     flags |-> Absent, response |-> Absent, ret |-> Absent, exc |-> Absent]

NewTask(kind, id, scraping, pc) ==
    [kind |-> kind, job_id |-> id, enable_scraping |-> scraping, pc |-> pc,
     l |-> Locals]

(* generate_leads_background is a coroutine that never awaits: once it     *)
(* runs, no other handler or task runs on the event loop before it ends.   *)
LoopFree == \A i \in DOMAIN tasks : tasks[i].pc = "pending"

(* A server whose handlers run while a task is between two statements.     *)
CanServeAnytime == TRUE

(* A request handler is served when the event loop is free.                *)
CanServe == LoopFree

----------------------------------------------------------------------------
(* Request handlers of api.py.                                             *)

(* A record that is created as already running.                            *)
NewJob_started(r, created) ==
    [status |-> "processing", industry |-> r.industry, number |-> r.number,
     country |-> r.country, enable_web_scraping |-> r.enable_web_scraping,
     created_at |-> Some(created), started_at |-> Some(created),
     completed_at |-> Absent, result |-> Absent, error |-> Absent]

(* Lines 272-279: the record of a new job.                                 *)
NewJob(r, created) ==
    [status |-> "queued", industry |-> r.industry, number |-> r.number,
     country |-> r.country, enable_web_scraping |-> r.enable_web_scraping,
     created_at |-> Some(created), started_at |-> Absent,
     completed_at |-> Absent, result |-> Absent, error |-> Absent]

(* job_storage[job_id] = {...}: the key is added or its value replaced.    *)
Store(id, rec) ==
    [k \in DOMAIN job_storage \cup {id} |->
        IF k = id THEN rec ELSE job_storage[k]]

NoResponse == [op |-> "none"]

(* POST /api/v1/leads/generate-async.  The handler reads the clock for the *)
(* identifier (line 269) and again for created_at (line 278); the clock    *)
(* may have moved on between the two readings.                             *)
Submit(raw) ==
    /\ CanServe
    /\ IF ~Present(Admitted[raw])
       THEN /\ resp' = [op |-> "submit", code |-> 422]
            /\ UNCHANGED <<apiKey, now, job_storage, tasks, submitted>>
       ELSE IF ~apiKey
       THEN /\ resp' = [op |-> "submit", code |-> 500]
            /\ UNCHANGED <<apiKey, now, job_storage, tasks, submitted>>
       ELSE LET r == Get(Admitted[raw])
                job_id == JobId(now, r.industry)
            IN  /\ submitted < MaxSubmits
                /\ submitted' = submitted + 1
                /\ \E created \in now..MaxTime :
                      /\ now' = created
                      /\ job_storage' = Store(job_id, NewJob(r, created))
                /\ tasks' = Append(tasks,
                       NewTask("background", job_id, r.enable_web_scraping,
                               "pending"))
                /\ resp' = [op |-> "submit", code |-> 200, job_id |-> job_id]
                /\ UNCHANGED apiKey

(* A view that shows every field the record has a value for.              *)
StatusView_all_fields(id) ==
    LET job == job_storage[id] IN
    [op |-> "status", code |-> 200, job_id |-> id,
     status |-> job.status, created_at |-> job.created_at,
     started_at |-> job.started_at, completed_at |-> job.completed_at,
     result |-> job.result, error |-> job.error,
     keys |-> {"job_id", "status", "created_at"}
              \cup {k \in {"started_at", "completed_at", "result", "error"} :
                       Present(job[k])}]

(* GET /api/v1/leads/status/{job_id}.                                      *)
StatusView(id) ==
    LET job == job_storage[id]
        base == [op |-> "status", code |-> 200, job_id |-> id,
                 status |-> job.status, created_at |-> job.created_at,
                 started_at |-> Absent, completed_at |-> Absent,
                 result |-> Absent, error |-> Absent,
                 keys |-> {"job_id", "status", "created_at"}]
    IN  IF job.status = "completed"
        THEN [base EXCEPT !.result = job.result,
                          !.completed_at = job.completed_at,
                          !.keys = @ \cup {"result", "completed_at"}]
        ELSE IF job.status = "failed"
        THEN [base EXCEPT !.error = job.error,
                          !.completed_at = job.completed_at,
                          !.keys = @ \cup {"error", "completed_at"}]
        ELSE IF job.status = "processing"
        THEN [base EXCEPT !.started_at = job.started_at,
                          !.keys = @ \cup {"started_at"}]
        ELSE base

get_job_status(id) ==
    /\ CanServe
    /\ resp' = IF id \notin DOMAIN job_storage
               THEN [op |-> "status", job_id |-> id, code |-> 404]
               ELSE StatusView(id)
    /\ UNCHANGED <<apiKey, now, job_storage, tasks, submitted>>

(* An export that does not look at the status of the job.                  *)
export_leads_any_status(id, format) ==
    /\ CanServe
    /\ resp' = IF id \notin DOMAIN job_storage
               THEN [op |-> "export", job_id |-> id, format |-> format,
                     code |-> 404]
               ELSE IF format = "json"
               THEN [op |-> "export", job_id |-> id, format |-> format,
                     code |-> 200, body |-> job_storage[id].result]
               ELSE [op |-> "export", job_id |-> id, format |-> format,
                     code |-> 501]
    /\ UNCHANGED <<apiKey, now, job_storage, tasks, submitted>>

(* GET /api/v1/leads/export/{job_id}?format=...  The response is kept      *)
(* together with the request it answers.                                   *)
export_leads(id, format) ==
    /\ CanServe
    /\ resp' = IF id \notin DOMAIN job_storage
               THEN [op |-> "export", job_id |-> id, format |-> format,
                     code |-> 404]
               ELSE IF job_storage[id].status # "completed"
               THEN [op |-> "export", job_id |-> id, format |-> format,
                     code |-> 400, status |-> job_storage[id].status]
               ELSE IF format = "json"
               THEN [op |-> "export", job_id |-> id, format |-> format,
                     code |-> 200, body |-> job_storage[id].result]
               ELSE [op |-> "export", job_id |-> id, format |-> format,
                     code |-> 501]
    /\ UNCHANGED <<apiKey, now, job_storage, tasks, submitted>>

(* Time passes.                                                            *)
Tick ==
    /\ now < MaxTime
    /\ now' = now + 1
    /\ UNCHANGED <<apiKey, job_storage, tasks, submitted, resp>>

----------------------------------------------------------------------------
(* generate_leads_background, statement by statement.                      *)

SetPc(i, pc) == [tasks EXCEPT ![i].pc = pc]

SetField(id, field, value) ==
    [job_storage EXCEPT ![id] = [@ EXCEPT ![field] = value]]

(* Line 169.  The task starts when the event loop is free, after the       *)
(* response of its request has been sent.                                  *)
BgSetProcessing(i) ==
    /\ LoopFree
    /\ tasks[i].pc = "pending"
    /\ job_storage' = SetField(tasks[i].job_id, "status", "processing")
    /\ tasks' = SetPc(i, "l170")
    /\ resp' = NoResponse
    /\ UNCHANGED <<apiKey, now, submitted>>

(* Line 170.                                                               *)
BgSetStartedAt(i) ==
    /\ tasks[i].pc = "l170"
    /\ job_storage' = SetField(tasks[i].job_id, "started_at", Some(now))
    /\ tasks' = SetPc(i, "l172")
    /\ UNCHANGED <<apiKey, now, submitted, resp>>

(* Line 163: HTTPException(500, "Lead generation failed: " + str(e)).     *)
LeadGenerationFailed(e) ==
    [kind |-> "HTTPException", status_code |-> 500,
     detail |-> [prefix |-> "Lead generation failed", cause |-> e]]

(* Lines 172, 150-154: generate_leads_sync validates the key and calls     *)
(* generate_companies with the default max_retries and initial_delay.      *)
SyncEnter(i) ==
    /\ tasks[i].pc = "l172"
    /\ tasks' =
         IF ~apiKey
         THEN [tasks EXCEPT ![i].pc = "l179",
                            ![i].l.exc = Some(LeadGenerationFailed(
                                [kind |-> "HTTPException", status_code |-> 500,
                                 detail |-> "GEMINI_API_KEY not configured"]))]
         ELSE [tasks EXCEPT ![i].pc = "loop",
                            ![i].l.max_retries = DefaultMaxRetries,
                            ![i].l.initial_delay = DefaultInitialDelay]
    /\ UNCHANGED <<apiKey, now, job_storage, submitted, resp>>

----------------------------------------------------------------------------
(* GeminiClient.generate_companies: the retry loop.                        *)

DirectOutcomes ==
    {[ok |-> TRUE, text |-> x] : x \in ResponseTexts}
    \cup {[ok |-> FALSE, e |-> x] : x \in Errors}

JobOutcomes ==
    {[ok |-> TRUE, text |-> x] : x \in JobResponseTexts}
    \cup {[ok |-> FALSE, e |-> x] : x \in JobErrors}

Outcomes(kind) == IF kind = "direct" THEN DirectOutcomes ELSE JobOutcomes

Flags(e) ==
    [is_503_error |-> is_503_error(e), is_rate_limit |-> is_rate_limit(e),
     is_connection_error |-> is_connection_error(e)]

(* Lines 101-161 for each exception: the flags computed, whether the       *)
(* error is retried, and the exception raised when it is not.              *)
Handled ==
    [e \in Errors |->
        [flags |-> Flags(e), retry |-> ShouldRetry(e),
         raised |-> RaisedError(e)]]

(* A log event that numbers the attempts from 0, as the loop does.         *)
LogEvent_zero_based(level, what, attempt, delay) ==
    [level |-> level, what |-> what, attempt |-> attempt - 1, delay |-> delay]

(* What logger.error / logger.warning emit: the level, the 1-based number  *)
(* of the failed attempt and the delay announced (0 when none is).         *)
LogEvent(level, what, attempt, delay) ==
    [level |-> level, what |-> what, attempt |-> attempt, delay |-> delay]

(* Lines 175-194: after the loop the response is parsed and returned.      *)
Return(t, text) ==
    [t EXCEPT !.pc = "returned",
              !.l.response = Some(text),
              !.l.ret = Some(ParseResponse(text))]

(* Lines 87-172: one iteration of the loop, given what the call did.       *)
AttemptResult(t, out) ==
    LET l == t.l IN
    IF out.ok
    THEN Return([t EXCEPT !.l.calls = @ + 1], out.text)
    ELSE LET e == out.e
             failed == [t EXCEPT !.l.calls = @ + 1,
                                 !.l.last_exception = Some(e),
                                 !.l.flags = Some(Handled[e].flags)]
         IN  IF ~Handled[e].retry
             THEN [failed EXCEPT
                     !.pc = "raised",
                     !.l.exc = Some(Handled[e].raised),
                     !.l.log = Append(@, LogEvent("error", "non-retryable",
                                                  l.attempt + 1, 0)),
                     !.l.effects = Append(@,
                        [kind |-> "log",
                         event |-> LogEvent("error", "non-retryable",
                                            l.attempt + 1, 0)])]
             ELSE IF LastAttempt(l.attempt, l.max_retries)
             THEN [failed EXCEPT
                     !.pc = "raised",
                     !.l.exc = Some(Handled[e].raised),
                     !.l.log = Append(@, LogEvent("error", "exhausted",
                                                  l.attempt + 1, 0)),
                     !.l.effects = Append(@,
                        [kind |-> "log",
                         event |-> LogEvent("error", "exhausted",
                                            l.attempt + 1, 0)])]
             ELSE LET delay == BackoffDelay(l.initial_delay, l.attempt)
                      event == LogEvent("warning", "retrying",
                                        l.attempt + 1, delay)
                  IN
                  [failed EXCEPT
                     !.l.attempt = @ + 1,
                     !.l.log = Append(@, event),
                     !.l.sleeps = Append(@, delay),
                     !.l.effects = @ \o <<[kind |-> "log", event |-> event],
                                          [kind |-> "sleep", delay |-> delay]>>]

(* Lines 175-177: the loop ran out of iterations without a response.       *)
NoResponseRaised(t) ==
    [t EXCEPT !.pc = "raised",
              !.l.exc = Some([kind |-> "NoResponse",
                              attempts |-> t.l.max_retries])]

(* The next iteration of `for attempt in range(max_retries)`, or the end   *)
(* of the loop.  A successful call breaks out of the loop and the response *)
(* is parsed; a failed one raises, or sleeps and goes on.                  *)
Attempt(i) ==
    /\ tasks[i].pc = "loop"
    /\ \E out \in Outcomes(tasks[i].kind) :
          tasks' = [tasks EXCEPT ![i] =
                      IF @.l.attempt < @.l.max_retries
                      THEN AttemptResult(@, out)
                      ELSE NoResponseRaised(@)]
    /\ UNCHANGED <<apiKey, now, job_storage, submitted, resp>>

----------------------------------------------------------------------------
(* generate_leads_sync after generate_companies.                           *)

(* scrape_company_data: the payload with the scraped data added.           *)
scrape_company_data(payload) == [payload EXCEPT !.scraped = TRUE]

(* A call whose outcome is dropped: the task ends without going on.        *)
Leave_lost(t, pc, ret, exc) == [t EXCEPT !.pc = "lost", !.l = Locals]

(* The call of generate_companies is over: its locals are gone, its       *)
(* value or its exception is what generate_leads_sync goes on with.        *)
Leave(t, pc, ret, exc) ==
    [t EXCEPT !.pc = pc, !.l = [Locals EXCEPT !.ret = ret, !.exc = exc]]

(* Lines 157-160: the payload goes through scrape_company_data when        *)
(* scraping is enabled; the scraper returns or raises.                     *)
SyncReturn(i) ==
    /\ tasks[i].kind = "background"
    /\ tasks[i].pc = "returned"
    /\ LET payload == [data |-> Get(tasks[i].l.ret), scraped |-> FALSE] IN
       \E scraped_ok \in BOOLEAN :
          /\ tasks[i].enable_scraping \/ scraped_ok
          /\ tasks' = [tasks EXCEPT ![i] =
               IF ~@.enable_scraping
               THEN Leave(@, "l174", Some(payload), Absent)
               ELSE IF scraped_ok
               THEN Leave(@, "l174", Some(scrape_company_data(payload)), Absent)
               ELSE Leave(@, "l179", Absent,
                      Some(LeadGenerationFailed([kind |-> "ScrapeError"])))]
    /\ UNCHANGED <<apiKey, now, job_storage, submitted, resp>>

(* Lines 162-163: an exception of generate_companies is wrapped.           *)
SyncExcept(i) ==
    /\ tasks[i].kind = "background"
    /\ tasks[i].pc = "raised"
    /\ tasks' = [tasks EXCEPT ![i] =
                    Leave(@, "l179", Absent,
                          Some(LeadGenerationFailed(Get(@.l.exc))))]
    /\ UNCHANGED <<apiKey, now, job_storage, submitted, resp>>

----------------------------------------------------------------------------
(* generate_leads_background, the two endings.                             *)

(* The coroutine ends and is gone.                                         *)
Finish(i) == SubSeq(tasks, 1, i - 1) \o SubSeq(tasks, i + 1, Len(tasks))

(* str(e) of the HTTPException: "<status_code>: <detail>".                 *)
StrOfException(e) == <<e.status_code, e.detail>>

(* The response of the submission cannot be sent (the send of the server   *)
(* raises): the response runs its background task only after it has sent   *)
(* the body, so the task is never run and the record stays as it is.       *)
SendFails(i) ==
    /\ LoopFree
    /\ tasks[i].pc = "pending"
    /\ tasks' = Finish(i)
    /\ resp' = NoResponse
    /\ UNCHANGED <<apiKey, now, job_storage, submitted>>

(* Line 174.                                                               *)
BgSetCompleted(i) ==
    /\ tasks[i].pc = "l174"
    /\ job_storage' = SetField(tasks[i].job_id, "status", "completed")
    /\ tasks' = SetPc(i, "l175")
    /\ UNCHANGED <<apiKey, now, submitted, resp>>

(* Line 175.                                                               *)
BgSetCompletedAt(i) ==
    /\ tasks[i].pc = "l175"
    /\ job_storage' = SetField(tasks[i].job_id, "completed_at", Some(now))
    /\ tasks' = SetPc(i, "l176")
    /\ UNCHANGED <<apiKey, now, submitted, resp>>

(* Line 176.                                                               *)
BgSetResult(i) ==
    /\ tasks[i].pc = "l176"
    /\ job_storage' = SetField(tasks[i].job_id, "result", tasks[i].l.ret)
    /\ tasks' = Finish(i)
    /\ UNCHANGED <<apiKey, now, submitted, resp>>

(* Line 179.                                                               *)
BgSetFailed(i) ==
    /\ tasks[i].pc = "l179"
    /\ job_storage' = SetField(tasks[i].job_id, "status", "failed")
    /\ tasks' = SetPc(i, "l180")
    /\ UNCHANGED <<apiKey, now, submitted, resp>>

(* Line 180.                                                               *)
BgSetError(i) ==
    /\ tasks[i].pc = "l180"
    /\ job_storage' = SetField(tasks[i].job_id, "error",
                               Some(StrOfException(Get(tasks[i].l.exc))))
    /\ tasks' = SetPc(i, "l181")
    /\ UNCHANGED <<apiKey, now, submitted, resp>>

(* Line 181.                                                               *)
BgSetFailedAt(i) ==
    /\ tasks[i].pc = "l181"
    /\ job_storage' = SetField(tasks[i].job_id, "completed_at", Some(now))
    /\ tasks' = Finish(i)
    /\ UNCHANGED <<apiKey, now, submitted, resp>>

----------------------------------------------------------------------------
(* The service: requests arrive, time passes, tasks run.                   *)

(* The identifiers asked for: those of the store and one it never holds.  *)
UnknownId == <<0, <<"n", "o", "n", "e">>>>

QueriedIds == DOMAIN job_storage \cup {UnknownId}

Init ==
    /\ apiKey \in BOOLEAN
    /\ now = 0
    /\ job_storage = [k \in {} |-> Absent]
    /\ tasks = <<>>
    /\ submitted = 0
    /\ resp = NoResponse

Next ==
    \/ \E raw \in Requests : Submit(raw)
    \/ \E id \in QueriedIds : get_job_status(id)
    \/ \E id \in QueriedIds, format \in {"json", "csv"} :
          export_leads(id, format)
    \/ Tick
    \/ \E i \in DOMAIN tasks : SendFails(i)
    \/ \E i \in DOMAIN tasks : BgSetProcessing(i)
    \/ \E i \in DOMAIN tasks : BgSetStartedAt(i)
    \/ \E i \in DOMAIN tasks : SyncEnter(i)
    \/ \E i \in DOMAIN tasks : Attempt(i)
    \/ \E i \in DOMAIN tasks : SyncReturn(i)
    \/ \E i \in DOMAIN tasks : SyncExcept(i)
    \/ \E i \in DOMAIN tasks : BgSetCompleted(i)
    \/ \E i \in DOMAIN tasks : BgSetCompletedAt(i)
    \/ \E i \in DOMAIN tasks : BgSetResult(i)
    \/ \E i \in DOMAIN tasks : BgSetFailed(i)
    \/ \E i \in DOMAIN tasks : BgSetError(i)
    \/ \E i \in DOMAIN tasks : BgSetFailedAt(i)

Spec == Init /\ [][Next]_vars

(* A step of a background task.                                            *)
TaskStep ==
    \E i \in DOMAIN tasks :
        \/ BgSetProcessing(i) \/ BgSetStartedAt(i) \/ SyncEnter(i)
        \/ Attempt(i) \/ SyncReturn(i) \/ SyncExcept(i)
        \/ BgSetCompleted(i) \/ BgSetCompletedAt(i) \/ BgSetResult(i)
        \/ BgSetFailed(i) \/ BgSetError(i) \/ BgSetFailedAt(i)

(* The event loop runs the tasks it was given, and every call of the       *)
(* service and of the scraper returns: a task that can take a step         *)
(* eventually takes one, or was never run because the response of its      *)
(* submission could not be sent.                                           *)
SpecFair == Spec /\ WF_vars(TaskStep)

----------------------------------------------------------------------------
(* generate_companies called directly, with max_retries and initial_delay  *)
(* given by the caller.                                                    *)

InitialDelays == {0, 1, 2, 7, 40, 100}

InitRetry ==
    /\ apiKey = TRUE
    /\ now = 0
    /\ job_storage = [k \in {} |-> Absent]
    /\ submitted = 0
    /\ resp = NoResponse
    /\ \E m \in 0..MaxRetriesBound, d \in InitialDelays :
          tasks = <<[NewTask("direct", NoJob, FALSE, "loop") EXCEPT
                        !.l.max_retries = m, !.l.initial_delay = d]>>

NextRetry ==
    \/ \E i \in DOMAIN tasks : Attempt(i)

SpecRetry == InitRetry /\ [][NextRetry]_vars

----------------------------------------------------------------------------
(* Properties of the job store.                                            *)

Terminal(status) == status \in {"completed", "failed"}

(* No task is between its first and its last statement: the states a       *)
(* request handler can run in.                                             *)
Quiescent == LoopFree

(* A task is running on the record id.                                     *)
RunningOn(id) ==
    \E i \in DOMAIN tasks : tasks[i].pc # "pending" /\ tasks[i].job_id = id

StatusStep(a, b) ==
    \/ a = b
    \/ a = "queued" /\ b = "processing"
    \/ a = "processing" /\ Terminal(b)

(* C1: the status of a job only moves queued -> processing -> completed or *)
(* failed; it never goes back, processing is entered from queued only and  *)
(* a terminal status from processing only.                                 *)
C1_StatusNeverRegresses ==
    [][\A id \in DOMAIN job_storage :
          /\ id \in DOMAIN job_storage'
          /\ StatusStep(job_storage[id].status, job_storage'[id].status)]_vars

(* C2: whenever a handler can look at the store, a record holds a result   *)
(* exactly when it is completed and an error exactly when it is failed.    *)
C2_ResultIffCompletedErrorIffFailed ==
    Quiescent =>
        \A id \in DOMAIN job_storage :
            /\ Present(job_storage[id].result)
                  <=> job_storage[id].status = "completed"
            /\ Present(job_storage[id].error)
                  <=> job_storage[id].status = "failed"

(* C3: the identifier an accepted submission returns is not the identifier *)
(* of a job the store already holds, so no record is replaced.             *)
C3_SubmitReturnsFreshId ==
    [][submitted' # submitted =>
          /\ resp'.op = "submit"
          /\ resp'.job_id \notin DOMAIN job_storage]_vars

(* C4: a status or export response never shows a torn record: completed    *)
(* comes with result and completed_at, failed with error and completed_at, *)
(* processing with started_at.                                             *)
C4_NoTornRead ==
    /\ (resp.op = "status" /\ resp.code = 200) =>
          /\ resp.status = "completed" =>
                Present(resp.result) /\ Present(resp.completed_at)
          /\ resp.status = "failed" =>
                Present(resp.error) /\ Present(resp.completed_at)
          /\ resp.status = "processing" => Present(resp.started_at)
    /\ (resp.op = "export" /\ resp.code = 200) => Present(resp.body)

(* C4 witness: a status read between two background executions returned a  *)
(* completed record while another job was still waiting to run.            *)
C4_Witness ==
    /\ resp.op = "status"
    /\ resp.code = 200
    /\ resp.status = "completed"
    /\ Present(resp.result)
    /\ tasks # <<>>

(* C5: a record that is completed or failed, and on which no task is       *)
(* running its last statements, is never changed or removed by a step.     *)
C5_TerminalRecordImmutable ==
    [][\A id \in DOMAIN job_storage :
          (Terminal(job_storage[id].status) /\ ~RunningOn(id)) =>
              /\ id \in DOMAIN job_storage'
              /\ job_storage'[id] = job_storage[id]]_vars

----------------------------------------------------------------------------
(* Properties of the retry loop of generate_companies.                     *)

NoFlag(f) == ~f.is_503_error /\ ~f.is_rate_limit /\ ~f.is_connection_error

(* C6: a call that returns after N failed attempts made N + 1 calls and    *)
(* slept N times, the k-th time for min(initial_delay * 2^(k-1), 60)       *)
(* seconds; every failure before the success was a retryable one.          *)
C6_BackoffSchedule ==
    \A i \in DOMAIN tasks :
        tasks[i].pc = "returned" =>
            LET l == tasks[i].l
                N == Len(l.sleeps)
            IN  /\ l.calls = N + 1
                /\ N < l.max_retries
                /\ Present(l.ret)
                /\ Present(l.last_exception) => ~NoFlag(Get(l.flags))
                /\ \A k \in 1..N :
                      /\ l.sleeps[k] =
                            IF l.initial_delay * 2^(k - 1) < 60
                            THEN l.initial_delay * 2^(k - 1) ELSE 60
                      /\ l.sleeps[k] <= 60

(* C6 witness: a call returned after three failures, the last sleep cut    *)
(* down to the cap of 60 seconds.                                          *)
C6_Witness ==
    \E i \in DOMAIN tasks :
        /\ tasks[i].pc = "returned"
        /\ tasks[i].l.calls = 4
        /\ tasks[i].l.sleeps = <<40, 60, 60>>

(* C7: with max_retries = 5 no sixth call is made; when the fifth call     *)
(* fails too the caller raises at once, having slept four times.           *)
C7_FiveAttemptsThenError ==
    \A i \in DOMAIN tasks :
        tasks[i].l.max_retries = 5 =>
            LET l == tasks[i].l IN
            /\ l.calls <= 5
            /\ (l.calls = 5 /\ tasks[i].pc # "returned") =>
                  /\ tasks[i].pc = "raised"
                  /\ Present(l.exc)
                  /\ Len(l.sleeps) = 4

(* C7 witness: five calls failed with a retryable error and the caller     *)
(* raised.                                                                 *)
C7_Witness ==
    \E i \in DOMAIN tasks :
        /\ tasks[i].l.max_retries = 5
        /\ tasks[i].pc = "raised"
        /\ tasks[i].l.calls = 5
        /\ Present(tasks[i].l.flags)
        /\ ~NoFlag(Get(tasks[i].l.flags))

(* C8: after a failure none of the three flags is set for, the caller has  *)
(* raised: no call and no sleep follows it, whether it was the first       *)
(* failure or came after retried ones.                                     *)
C8_PermanentRaisesAtOnce ==
    \A i \in DOMAIN tasks :
        LET l == tasks[i].l IN
        (Present(l.flags) /\ NoFlag(Get(l.flags))) =>
            /\ tasks[i].pc = "raised"
            /\ Present(l.exc)
            /\ Len(l.sleeps) = l.calls - 1
            /\ l.attempt = l.calls - 1

(* C8 witness: a permanent failure on the third call, after two retried    *)
(* failures.                                                               *)
C8_Witness ==
    \E i \in DOMAIN tasks :
        /\ Present(tasks[i].l.flags)
        /\ NoFlag(Get(tasks[i].l.flags))
        /\ tasks[i].pc = "raised"
        /\ tasks[i].l.calls = 3
        /\ Len(tasks[i].l.sleeps) = 2

(* The classes an error falls into, read off the three flags.              *)
Classes(f) ==
    (IF f.is_503_error THEN {"RetryableOverload"} ELSE {})
    \cup (IF f.is_rate_limit THEN {"RetryableRateLimit"} ELSE {})
    \cup (IF f.is_connection_error THEN {"RetryableConnection"} ELSE {})
    \cup (IF NoFlag(f) THEN {"Permanent"} ELSE {})

(* C9 as stated: every failure falls into exactly one of the four classes, *)
(* overload before rate limit before connection before permanent.          *)
C9_ExactlyOneClass ==
    \A i \in DOMAIN tasks :
        Present(tasks[i].l.flags) =>
            Cardinality(Classes(Get(tasks[i].l.flags))) = 1

(* C9 amended: every failure falls into at least one class, Permanent      *)
(* only alone; the three retryable flags are set independently of one      *)
(* another, so a message with an overload and a connection pattern sets    *)
(* both; a failure with any flag set is raised only on the last attempt.   *)
C9_FlagsIndependent ==
    \A i \in DOMAIN tasks :
        Present(tasks[i].l.flags) =>
            LET l == tasks[i].l
                f == Get(l.flags)
                m == Lower(Get(l.last_exception).msg)
            IN  /\ Classes(f) # {}
                /\ "Permanent" \in Classes(f) => Classes(f) = {"Permanent"}
                /\ Contains(m, PAT_overloaded) => f.is_503_error
                /\ Contains(m, PAT_rate_limit) => f.is_rate_limit
                /\ Contains(m, PAT_connection) => f.is_connection_error
                /\ (~NoFlag(f) /\ tasks[i].pc = "raised") =>
                      l.calls = l.max_retries

(* C9 witness: "Connection pool overloaded" set the overload and the       *)
(* connection flag, and the call is retried.                               *)
C9_Witness ==
    \E i \in DOMAIN tasks :
        /\ tasks[i].l.last_exception = Some(E_pool)
        /\ Get(tasks[i].l.flags).is_503_error
        /\ Get(tasks[i].l.flags).is_connection_error
        /\ tasks[i].pc = "loop"
        /\ tasks[i].l.attempt = 1

ListedPatterns ==
    {PAT_overloaded, PAT_unavailable, PAT_service_unavailable,
     PAT_rate_limit, PAT_too_many_requests, PAT_connection, PAT_timeout,
     PAT_network}

(* The conditions C10 lists: a status or code of 503 or 429, a rate-limit  *)
(* or connection exception, one of the eight patterns in the message.      *)
Listed(e) ==
    \/ e.status_code \in {"503", "429"}
    \/ e.response_status_code \in {"503", "429"}
    \/ e.code \in {"503", "429"}
    \/ e.type \in {"RateLimitError", "APIConnectionError"}
    \/ \E p \in ListedPatterns : Contains(Lower(e.msg), p)

(* C10 as stated: a failure that meets none of the listed conditions is    *)
(* permanent: no flag is set for it and the caller has raised.             *)
C10_PermanentUnlessListed ==
    \A i \in DOMAIN tasks :
        LET l == tasks[i].l IN
        (Present(l.last_exception) /\ ~Listed(Get(l.last_exception))) =>
            NoFlag(Get(l.flags)) /\ tasks[i].pc = "raised"

(* C10 amended: a failure that meets none of the listed conditions and     *)
(* whose message does not contain "503" is permanent.                      *)
C10_PermanentUnlessListedOr503 ==
    \A i \in DOMAIN tasks :
        LET l == tasks[i].l IN
        (/\ Present(l.last_exception)
         /\ ~Listed(Get(l.last_exception))
         /\ ~Contains(Get(l.last_exception).msg, PAT_503)) =>
            NoFlag(Get(l.flags)) /\ tasks[i].pc = "raised"

(* C10 witness: a 400 "Bad request" on the second call was not retried.    *)
C10_Witness ==
    \E i \in DOMAIN tasks :
        /\ tasks[i].l.last_exception = Some(E_bad_request)
        /\ tasks[i].pc = "raised"
        /\ tasks[i].l.calls = 2
        /\ NoFlag(Get(tasks[i].l.flags))

----------------------------------------------------------------------------
(* Properties of the job lifecycle, the handlers and the retry log.        *)

(* generate_leads_sync has returned to generate_leads_background.          *)
SyncReturned(i) == tasks[i].pc \in {"l174", "l175", "l176"}

(* C11: an answer of the service that cannot be parsed is an error: the    *)
(* synchronous path does not return a payload for it and no job is         *)
(* completed with such a payload as its result.                            *)
C11_UnparseableOutputFailsJob ==
    /\ \A i \in DOMAIN tasks :
          SyncReturned(i) => Get(tasks[i].l.ret).data.kind = "json"
    /\ \A id \in DOMAIN job_storage :
          (job_storage[id].status = "completed"
              /\ Present(job_storage[id].result)) =>
                 Get(job_storage[id].result).data.kind = "json"

(* A step that answers an export request.                                  *)
ExportStep == resp'.op = "export" /\ resp' # resp

(* What an export answers for an unknown and for an unfinished job.        *)
ExportRefused(r) ==
    /\ r.job_id \notin DOMAIN job_storage => r.code = 404
    /\ (r.job_id \in DOMAIN job_storage
           /\ job_storage[r.job_id].status # "completed") =>
          /\ r.code = 400
          /\ "body" \notin DOMAIN r

ExportOfCompleted(r) ==
    /\ r.job_id \in DOMAIN job_storage
    /\ job_storage[r.job_id].status = "completed"

(* C12 as stated: an export of an unknown job answers not found, of a job  *)
(* that is not completed a distinct error without a result, of a completed *)
(* job the result stored in its record; the store is left as it was.       *)
C12_ExportReturnsStoredResult ==
    [][ExportStep =>
          /\ UNCHANGED <<job_storage, tasks>>
          /\ ExportRefused(resp')
          /\ ExportOfCompleted(resp') =>
                /\ resp'.code = 200
                /\ resp'.body = job_storage[resp'.job_id].result]_vars

(* C12 amended: as stated for an export in the JSON format; an export of a *)
(* completed job in the CSV format answers not implemented (501) and       *)
(* returns no result.                                                      *)
C12_JsonExportReturnsStoredResult ==
    [][ExportStep =>
          /\ UNCHANGED <<job_storage, tasks>>
          /\ ExportRefused(resp')
          /\ (ExportOfCompleted(resp') /\ resp'.format = "json") =>
                /\ resp'.code = 200
                /\ resp'.body = job_storage[resp'.job_id].result
          /\ (ExportOfCompleted(resp') /\ resp'.format = "csv") =>
                /\ resp'.code = 501
                /\ "body" \notin DOMAIN resp']_vars

(* C12 witness: the export of a completed job returned its stored result.  *)
C12_Witness ==
    /\ resp.op = "export"
    /\ resp.code = 200
    /\ resp.job_id \in DOMAIN job_storage
    /\ job_storage[resp.job_id].status = "completed"
    /\ Present(resp.body)
    /\ resp.body = job_storage[resp.job_id].result

(* The keys a status response has for a record of the given status.        *)
ViewKeys(status) ==
    {"job_id", "status", "created_at"}
    \cup (IF status = "processing" THEN {"started_at"} ELSE {})
    \cup (IF status = "completed" THEN {"result", "completed_at"} ELSE {})
    \cup (IF status = "failed" THEN {"error", "completed_at"} ELSE {})

(* A step that answers a status request.                                   *)
StatusRequestStep == resp'.op = "status" /\ resp' # resp

(* The view of every record of the store has the keys of its status, with *)
(* the values the record holds.                                            *)
ViewsFollowStatus ==
    \A id \in DOMAIN job_storage :
        LET job == job_storage[id]
            view == StatusView(id)
        IN  /\ view.code = 200
            /\ view.status = job.status
            /\ view.keys = ViewKeys(job.status)
            /\ \A k \in view.keys \ {"job_id", "status"} : view[k] = job[k]
            /\ "result" \in view.keys => job.status = "completed"
            /\ "error" \in view.keys => job.status = "failed"

(* C13: the view of a record is determined by its status: the status and   *)
(* created_at, with started_at when processing, result and completed_at    *)
(* when completed, error and completed_at when failed, each with the value *)
(* the record holds; a status request for an unknown identifier answers    *)
(* not found, and no status request changes the store.                     *)
C13_StatusViewByStatus ==
    /\ []ViewsFollowStatus
    /\ [][StatusRequestStep =>
             /\ UNCHANGED <<job_storage, tasks>>
             /\ IF resp'.job_id \in DOMAIN job_storage
                THEN resp' = StatusView(resp'.job_id)
                ELSE resp'.code = 404 /\ "status" \notin DOMAIN resp']_vars

(* C13 witness: a status request answered with the view of a failed job:   *)
(* its error and completed_at, neither result nor started_at.              *)
C13_Witness ==
    /\ resp.op = "status"
    /\ resp.code = 200
    /\ resp.status = "failed"
    /\ resp.keys = {"job_id", "status", "created_at", "error", "completed_at"}
    /\ Present(resp.error)
    /\ resp.error = job_storage[resp.job_id].error

(* The requests the claim calls invalid: a count outside 1..50, an empty   *)
(* industry or country.                                                    *)
InvalidRequests ==
    {raw \in Requests :
        \/ raw.number < 1
        \/ raw.number > 50
        \/ Strip(raw.industry) = <<>>
        \/ Strip(raw.country) = <<>>}

(* The submissions the claim calls rejected: an invalid request, or any    *)
(* request when the service has no credentials.                            *)
Rejected(raw) == raw \in InvalidRequests \/ ~apiKey

(* C14: a rejected submission is answered with an error and leaves the     *)
(* store and the scheduled tasks as they were, so that no call is made     *)
(* for it.                                                                 *)
C14_RejectedSubmitLeavesStore ==
    [][resp'.op = "submit" =>
          \A raw \in Requests :
              (Rejected(raw) /\ Submit(raw)) =>
                  /\ resp'.code \in {422, 500}
                  /\ "job_id" \notin DOMAIN resp'
                  /\ UNCHANGED <<job_storage, tasks, submitted>>]_vars

(* C14 witness: a submission was rejected while the store held a job and   *)
(* a task was waiting; both are still there.                               *)
C14_Witness ==
    /\ resp.op = "submit"
    /\ resp.code = 422
    /\ DOMAIN job_storage # {}
    /\ tasks # <<>>

(* The retries of a call ran out: it raised on a failure that had a flag   *)
(* set.                                                                    *)
Exhausted(t) ==
    /\ t.pc = "raised"
    /\ Present(t.l.flags)
    /\ ~NoFlag(Get(t.l.flags))

(* The errors raised for a permanent failure.                              *)
PermanentRaises ==
    {Handled[e].raised : e \in {x \in Errors : NoFlag(Handled[x].flags)}}

(* C15 as stated: the error raised when the retries ran out carries the    *)
(* class of the failure and the number of attempts made, and is not an     *)
(* error that a permanent failure raises.                                  *)
C15_ExhaustedErrorKeepsClassAndAttempts ==
    \A i \in DOMAIN tasks :
        Exhausted(tasks[i]) =>
            LET x == Get(tasks[i].l.exc) IN
            /\ x \notin PermanentRaises
            /\ "classification" \in DOMAIN x
            /\ "attempts" \in DOMAIN x
            /\ x.attempts = tasks[i].l.calls

(* C15 amended: the error raised when the retries ran out carries the      *)
(* status code of the last failure (UNKNOWN when it has none) and its      *)
(* message and nothing else, as does the error of a permanent failure; the *)
(* number of attempts made is in the last log event only.                  *)
C15_ExhaustedErrorIsLastFailure ==
    \A i \in DOMAIN tasks :
        Exhausted(tasks[i]) =>
            LET l == tasks[i].l
                x == Get(l.exc)
                e == Get(l.last_exception)
            IN  /\ DOMAIN x = {"error_code", "msg"}
                /\ x.msg = e.msg
                /\ x.error_code =
                      IF error_code(e) = "None" THEN "UNKNOWN"
                      ELSE error_code(e)
                /\ l.calls = l.max_retries
                /\ l.log[Len(l.log)] =
                      [level |-> "error", what |-> "exhausted",
                       attempt |-> l.calls, delay |-> 0]

(* C15 witness: five connection errors without a status code; the error    *)
(* raised is the one a permanent failure with the same message raises.     *)
C15_Witness ==
    \E i \in DOMAIN tasks :
        /\ Exhausted(tasks[i])
        /\ tasks[i].l.calls = 5
        /\ tasks[i].l.last_exception = Some(E_conn_type)
        /\ Get(tasks[i].l.exc) = RaisedError(E_plain_timed_out)
        /\ Get(tasks[i].l.exc).error_code = "UNKNOWN"

TimeFields == {"created_at", "started_at", "completed_at"}

(* The timestamps a record has, given its status, and their order.         *)
TimestampsInOrder(job) ==
    /\ Present(job.created_at)
    /\ Present(job.started_at) <=>
          job.status \in {"processing", "completed", "failed"}
    /\ Present(job.completed_at) <=> Terminal(job.status)
    /\ Present(job.started_at) =>
          Get(job.created_at) <= Get(job.started_at)
    /\ (Present(job.started_at) /\ Present(job.completed_at)) =>
          Get(job.started_at) <= Get(job.completed_at)

(* C16: whenever a handler can look at the store, every record has         *)
(* created_at, has started_at exactly when it has entered processing and   *)
(* completed_at exactly when it is completed or failed, in this order; and *)
(* no step changes or removes a timestamp that is set.                     *)
C16_TimestampsSetOnceInOrder ==
    [][/\ Quiescent' =>
             \A id \in DOMAIN job_storage' :
                 TimestampsInOrder(job_storage'[id])
       /\ \A id \in DOMAIN job_storage, f \in TimeFields :
             Present(job_storage[id][f]) =>
                 /\ id \in DOMAIN job_storage'
                 /\ job_storage'[id][f] = job_storage[id][f]]_vars

(* C17: jobs run as independent units of work: a job that is waiting can   *)
(* enter processing whatever the other jobs are doing, so that two jobs    *)
(* can be in processing together.                                          *)
C17_QueuedJobCanStart ==
    \A i \in DOMAIN tasks :
        tasks[i].pc = "pending" => ENABLED BgSetProcessing(i)

(* C18: when an accepted submission returns, the record of the identifier  *)
(* it returns is queued, with created_at and the parameters of the request *)
(* and without started_at, completed_at, result or error, and the job's    *)
(* task has been added but has not run a step; no step both answers a      *)
(* submission and moves a record to processing.                            *)
C18_SubmitReturnsQueuedRecord ==
    [][/\ \A raw \in Requests :
             (resp'.op = "submit" /\ resp'.code = 200 /\ Submit(raw)) =>
                 LET id == resp'.job_id
                     job == job_storage'[id]
                     n == Len(tasks')
                 IN  /\ id \in DOMAIN job_storage'
                     /\ job.status = "queued"
                     /\ job.created_at = Some(now')
                     /\ now' >= now
                     /\ job.industry = Strip(raw.industry)
                     /\ job.number = raw.number
                     /\ job.country = Strip(raw.country)
                     /\ job.enable_web_scraping = raw.enable_web_scraping
                     /\ ~Present(job.started_at)
                     /\ ~Present(job.completed_at)
                     /\ ~Present(job.result)
                     /\ ~Present(job.error)
                     /\ n = Len(tasks) + 1
                     /\ SubSeq(tasks', 1, n - 1) = tasks
                     /\ tasks'[n].job_id = id
                     /\ tasks'[n].pc = "pending"
                     /\ tasks'[n].l.calls = 0
       /\ resp'.op = "submit" =>
             \A id \in DOMAIN job_storage' :
                 job_storage'[id].status = "processing" =>
                     /\ id \in DOMAIN job_storage
                     /\ job_storage[id].status = "processing"]_vars

(* C18 witness: a submission has returned the identifier of a queued       *)
(* record whose task has not started, while an earlier job is finished.    *)
C18_Witness ==
    /\ resp.op = "submit"
    /\ resp.code = 200
    /\ job_storage[resp.job_id].status = "queued"
    /\ ~Present(job_storage[resp.job_id].started_at)
    /\ tasks[Len(tasks)].job_id = resp.job_id
    /\ tasks[Len(tasks)].pc = "pending"
    /\ \E id \in DOMAIN job_storage : Terminal(job_storage[id].status)

IsRetryEvent(ev) == ev.level = "warning" /\ ev.what = "retrying"

(* The number of sleeps among the first k effects of a call.               *)
SleepsUpTo(effects, k) ==
    Cardinality({j \in 1..k : effects[j].kind = "sleep"})

(* C19: every sleep of the retry loop comes right after a retry log event  *)
(* that carries the 1-based number of the attempt that failed and the      *)
(* delay slept; there are as many retry events as sleeps.                  *)
C19_RetryLoggedBeforeSleep ==
    \A i \in DOMAIN tasks :
        LET l == tasks[i].l
            fx == l.effects
        IN  /\ Len(SelectSeq(l.log, IsRetryEvent)) = Len(l.sleeps)
            /\ SleepsUpTo(fx, Len(fx)) = Len(l.sleeps)
            /\ \A k \in 1..Len(fx) :
                  fx[k].kind = "sleep" =>
                      /\ k > 1
                      /\ fx[k - 1].kind = "log"
                      /\ IsRetryEvent(fx[k - 1].event)
                      /\ fx[k - 1].event.attempt = SleepsUpTo(fx, k)
                      /\ fx[k - 1].event.delay = fx[k].delay
                      /\ fx[k].delay = l.sleeps[SleepsUpTo(fx, k)]

(* C19 witness: three retries logged as attempts 1, 2, 3 with the delays   *)
(* 2, 4 and 8 that were slept.                                             *)
C19_Witness ==
    \E i \in DOMAIN tasks :
        /\ tasks[i].l.sleeps = <<2, 4, 8>>
        /\ Len(tasks[i].l.effects) = 6
        /\ tasks[i].l.effects[5].event.attempt = 3
        /\ tasks[i].l.effects[5].event.delay = 8
        /\ tasks[i].l.effects[6] = [kind |-> "sleep", delay |-> 8]

(* The identifiers a submission can be given.                              *)
JobIds ==
    {JobId(t, Get(Admitted[raw]).industry) :
        t \in 0..MaxTime, raw \in {r \in Requests : Present(Admitted[r])}}

(* The execution of the job is scheduled: a task of it waits or runs.      *)
Scheduled(id) == \E i \in DOMAIN tasks : tasks[i].job_id = id

(* The execution of the job was never scheduled: the response of its       *)
(* submission could not be sent, and its task was not run.                 *)
NeverRun(id) == job_storage[id].status = "queued" /\ ~Scheduled(id)

(* C20: every job in the store whose execution is scheduled eventually is  *)
(* completed or failed, when the tasks are run and every call returns,     *)
(* whatever the service answers; a job stays queued only when its          *)
(* execution was never scheduled.                                          *)
C20_EveryJobTerminates ==
    \A id \in JobIds :
        (id \in DOMAIN job_storage) ~>
            /\ id \in DOMAIN job_storage
            /\ Terminal(job_storage[id].status) \/ NeverRun(id)

(* C20 witness: a job failed after the service had answered 503 to all     *)
(* five calls.                                                             *)
C20_Witness ==
    \E id \in DOMAIN job_storage :
        /\ job_storage[id].status = "failed"
        /\ Present(job_storage[id].completed_at)
        /\ job_storage[id].error =
              Some(StrOfException(LeadGenerationFailed(RaisedError(E_code_503))))

----------------------------------------------------------------------------
(* The enhancement step of a job.                                          *)

(* generate_leads_sync calls scrape_company_data for task i.               *)
EnhanceCalled(i) == SyncReturn(i) /\ tasks[i].enable_scraping

(* The positions of a task after its call of generate_companies is over    *)
(* and the scraper, if called, has answered.                               *)
AfterEnhance == {"l174", "l175", "l176", "l179", "l180", "l181"}

(* The scraper is called only for a job that asked for it: a task that     *)
(* did not goes on with the payload as generated.                          *)
EnhanceOnlyIfEnabled ==
    \A i \in DOMAIN tasks :
        (SyncReturn(i) /\ ~tasks[i].enable_scraping) =>
            /\ tasks'[i].pc = "l174"
            /\ ~Get(tasks'[i].l.ret).scraped

(* The scraper is called only with a payload that generate_companies       *)
(* returned, never after it raised.                                        *)
EnhanceOnlyAfterReturn ==
    \A i \in DOMAIN tasks :
        EnhanceCalled(i) =>
            /\ tasks[i].pc = "returned"
            /\ Present(tasks[i].l.ret)
            /\ ~Present(tasks[i].l.exc)

(* The scraper is called only with a payload parsed from the answer of     *)
(* the service.                                                            *)
EnhanceOnlyAfterSuccess ==
    \A i \in DOMAIN tasks :
        EnhanceCalled(i) => Get(tasks[i].l.ret).kind = "json"

(* The scraper is called once: its answer ends the call, and a task past   *)
(* the call never comes back to it or to the loop of attempts.             *)
EnhanceOnceNoRetry ==
    \A i \in DOMAIN tasks :
        /\ EnhanceCalled(i) => tasks'[i].pc \in {"l174", "l179"}
        /\ (tasks[i].pc \in AfterEnhance /\ Len(tasks') >= Len(tasks)) =>
              tasks'[i].pc \in AfterEnhance

(* The task goes on to record a failure of the scraper.                    *)
EnhanceFailed(t) ==
    /\ t.pc \in {"l179", "l180", "l181"}
    /\ Get(t.l.exc).detail.cause = [kind |-> "ScrapeError"]

(* A failure of the scraper fails the job: the task holds no payload any   *)
(* more, writes the status failed and the error, and never a result.       *)
EnhanceFailureFailsJob ==
    \A i \in DOMAIN tasks :
        /\ (EnhanceCalled(i) /\ tasks'[i].pc # "l174") =>
              /\ EnhanceFailed(tasks'[i])
              /\ ~Present(tasks'[i].l.ret)
        /\ EnhanceFailed(tasks[i]) =>
              LET id == tasks[i].job_id IN
              /\ job_storage'[id].result = job_storage[id].result
              /\ BgSetFailed(i) => job_storage'[id].status = "failed"
              /\ BgSetError(i) =>
                    job_storage'[id].error =
                        Some(StrOfException(LeadGenerationFailed(
                                [kind |-> "ScrapeError"])))
              /\ BgSetFailedAt(i) => job_storage'[id].status = "failed"

(* C21: the scraper is called for a job only when scraping is enabled and  *)
(* only after the generation of that job succeeded, once and without       *)
(* retry; when it fails the job is failed with the error stored, and the   *)
(* generated payload is not stored as its result.                          *)
C21_EnhanceAfterSuccessFailureFailsJob ==
    [][/\ EnhanceOnlyIfEnabled
       /\ EnhanceOnlyAfterSuccess
       /\ EnhanceOnceNoRetry
       /\ EnhanceFailureFailsJob]_vars

(* What holds of the code: the same with "the generation succeeded" read   *)
(* as "generate_companies returned".                                       *)
EnhancePolicyOfTheCode ==
    [][/\ EnhanceOnlyIfEnabled
       /\ EnhanceOnlyAfterReturn
       /\ EnhanceOnceNoRetry
       /\ EnhanceFailureFailsJob]_vars
====
